---- MODULE Spec2Model ----
(***************************************************************************)
(* Model of the ClickHouse Time (seconds) and Time64 (sub-second) columns  *)
(* of clickhouse-go: lib/column/time.go (src/unnamed/part_000) and         *)
(* lib/column/time64.go (src/unnamed/part_001).                            *)
(*                                                                         *)
(* One column instance is modelled.  Strings are sequences of one-letter   *)
(* strings so that the prefix/suffix/split/parse operations of the code    *)
(* are computed, not assumed.  A time.Time is a wall clock (day relative   *)
(* to 1970-01-01, second of the day, nanosecond) together with the         *)
(* location it is expressed in.  64-bit ticks are kept as a pair           *)
(* (whole seconds, fraction at the column's precision).                    *)
(***************************************************************************)
EXTENDS Integers, Sequences, FiniteSets, TLC

VARIABLES colKind, phase, chType, timezone, precision, precisionSet,
          data, written, last, panicked

vars == <<colKind, phase, chType, timezone, precision, precisionSet,
          data, written, last, panicked>>

(***************************************************************************)
(* Bounds of the model.                                                    *)
(***************************************************************************)
MaxRows == 1
MaxBatch == 2

\* the most rows a column comes to hold: a batch is appended whole to a
\* column of fewer than MaxRows rows
MaxLen == MaxRows - 1 + MaxBatch

(***************************************************************************)
(* Go integer arithmetic: / and % truncate toward zero.                    *)
(***************************************************************************)
GoDiv(a, b) == IF a >= 0 THEN a \div b ELSE -((-a) \div b)

GoMod(a, b) == a - b * GoDiv(a, b)

Pow10(n) == CASE n = 0 -> 1 [] n = 1 -> 10 [] n = 2 -> 100 [] n = 3 -> 1000
              [] n = 4 -> 10000 [] n = 5 -> 100000 [] n = 6 -> 1000000
              [] n = 7 -> 10000000 [] n = 8 -> 100000000
              [] OTHER -> 1000000000

(***************************************************************************)
(* Strings as sequences of characters.                                     *)
(***************************************************************************)
DigitChars == <<"0", "1", "2", "3", "4", "5", "6", "7", "8", "9">>

IsDigitChar(c) == \E i \in 1..10 : DigitChars[i] = c

DigitVal(c) == (CHOOSE i \in 1..10 : DigitChars[i] = c) - 1

\* isDigit(s, i) of package time, with i counted from 0
isDigit(s, i) == i + 1 <= Len(s) /\ IsDigitChar(s[i + 1])

Drop(s, n) == IF n >= Len(s) THEN <<>> ELSE SubSeq(s, n + 1, Len(s))

Take(s, n) == IF n >= Len(s) THEN s ELSE SubSeq(s, 1, n)

HasPrefix(s, p) == Len(s) >= Len(p) /\ SubSeq(s, 1, Len(p)) = p

HasSuffix(s, p) == Len(s) >= Len(p) /\ SubSeq(s, Len(s) - Len(p) + 1, Len(s)) = p

TrimPrefix(s, p) == IF HasPrefix(s, p) THEN Drop(s, Len(p)) ELSE s

TrimSuffix(s, p) == IF HasSuffix(s, p) THEN Take(s, Len(s) - Len(p)) ELSE s

Contains(s, c) == \E i \in 1..Len(s) : s[i] = c

\* strings.Split(s, ","): the pieces between the commas
RECURSIVE SplitComma(_)
SplitComma(s) ==
  IF ~Contains(s, ",") THEN <<s>>
  ELSE LET i == CHOOSE j \in 1..Len(s) : s[j] = "," /\ \A k \in 1..(j - 1) : s[k] # ","
       IN <<Take(s, i - 1)>> \o SplitComma(Drop(s, i))

RECURSIVE Atoi(_)
Atoi(ds) == IF ds = <<>> THEN 0
            ELSE 10 * Atoi(Take(ds, Len(ds) - 1)) + DigitVal(ds[Len(ds)])

AllDigits(ds) == ds # <<>> /\ \A i \in 1..Len(ds) : IsDigitChar(ds[i])

\* strconv.ParseInt(s, 10, bits) for the widths used: bits = 8 checks the
\* int8 range; bits = 64 never overflows on the strings of the model.
ParseInt(s, bits) ==
  LET signed == s # <<>> /\ s[1] \in {"+", "-"}
      ds == IF signed THEN Drop(s, 1) ELSE s
      mag == Atoi(ds)
      n == IF signed /\ s[1] = "-" THEN -mag ELSE mag
  IN IF ~AllDigits(ds) THEN [ok |-> FALSE, n |-> 0]
     ELSE IF bits = 8 /\ (n < -128 \/ n > 127) THEN [ok |-> FALSE, n |-> 0]
     ELSE [ok |-> TRUE, n |-> n]

(***************************************************************************)
(* time.Time: wall clock [day, sec, ns] in location loc.  A location is    *)
(* "nil" (no *time.Location), "UTC" or a zone with a fixed offset.         *)
(***************************************************************************)
NilLoc == "nil"

Locations == {"UTC", "Asia/Dubai"}

\* seconds east of UTC
LocOffset(loc) == IF loc = "Asia/Dubai" THEN 4 * 3600 ELSE 0

\* time.Time{}: January 1, year 1, 00:00:00 UTC
ZeroTime == [day |-> -719162, sec |-> 0, ns |-> 0, loc |-> "UTC"]

\* time.Date(1970, 1, 1 + day0, h, m, s, ns, loc): the components may be
\* negative or out of range; Date normalises them into the calendar.
TimeDate(day0, h, m, s, ns, loc) ==
  LET total == h * 3600 + m * 60 + s + (ns \div 1000000000)
  IN [day |-> day0 + (total \div 86400), sec |-> total % 86400,
      ns |-> ns % 1000000000, loc |-> loc]

Hour(t) == t.sec \div 3600

Minute(t) == (t.sec % 3600) \div 60

Second(t) == t.sec % 60

Nanosecond(t) == t.ns

\* t.In(loc): the same instant, expressed in loc
TimeIn(t, loc) ==
  LET s == t.sec + LocOffset(loc) - LocOffset(t.loc)
  IN [day |-> t.day + (s \div 86400), sec |-> s % 86400, ns |-> t.ns, loc |-> loc]

(***************************************************************************)
(* time.Parse(layout, value).  A layout is the sequence of its chunks      *)
(* [lit, std]: the literal text before the element, then the element.      *)
(***************************************************************************)
Chunk(lit, std) == [lit |-> lit, std |-> std]

L_15_04_05 == <<Chunk(<<>>, "stdHour"), Chunk(<<":">>, "stdZeroMinute"),
                Chunk(<<":">>, "stdZeroSecond")>>

L_15_04 == <<Chunk(<<>>, "stdHour"), Chunk(<<":">>, "stdZeroMinute")>>

L_15_04_05_frac == L_15_04_05 \o <<Chunk(<<>>, "stdFracSecond9")>>

L_3_04_05_PM == <<Chunk(<<>>, "stdHour12"), Chunk(<<":">>, "stdZeroMinute"),
                  Chunk(<<":">>, "stdZeroSecond"), Chunk(<<" ">>, "stdPM")>>

L_3_04_PM == <<Chunk(<<>>, "stdHour12"), Chunk(<<":">>, "stdZeroMinute"),
               Chunk(<<" ">>, "stdPM")>>

L_15_04_05_tz == L_15_04_05 \o <<Chunk(<<" ">>, "stdNumColonTZ")>>

L_15_04_05_frac_tz == L_15_04_05_frac \o <<Chunk(<<" ">>, "stdNumColonTZ")>>

RECURSIVE CutSpace(_)
CutSpace(s) == IF s # <<>> /\ s[1] = " " THEN CutSpace(Drop(s, 1)) ELSE s

\* skip(value, prefix) of package time: a space of the layout stands for
\* any run of spaces of the value
RECURSIVE Skip(_, _)
Skip(value, prefix) ==
  IF prefix = <<>> THEN [ok |-> TRUE, rest |-> value]
  ELSE IF prefix[1] = " "
    THEN IF value # <<>> /\ value[1] # " " THEN [ok |-> FALSE, rest |-> value]
         ELSE Skip(CutSpace(value), CutSpace(prefix))
  ELSE IF value = <<>> \/ value[1] # prefix[1] THEN [ok |-> FALSE, rest |-> value]
  ELSE Skip(Drop(value, 1), Drop(prefix, 1))

\* getnum(s, fixed) of package time: one or two digits
GetNum(s, fixed) ==
  IF ~isDigit(s, 0) THEN [ok |-> FALSE, n |-> 0, rest |-> s]
  ELSE IF ~isDigit(s, 1)
    THEN IF fixed THEN [ok |-> FALSE, n |-> 0, rest |-> s]
         ELSE [ok |-> TRUE, n |-> DigitVal(s[1]), rest |-> Drop(s, 1)]
  ELSE [ok |-> TRUE, n |-> DigitVal(s[1]) * 10 + DigitVal(s[2]), rest |-> Drop(s, 2)]

\* number of digits of value from position 2 on (value[1] is the period)
RECURSIVE DigitRun(_, _)
DigitRun(value, i) == IF isDigit(value, i) THEN DigitRun(value, i + 1) ELSE i

\* parseNanoseconds(value, nbytes): the period and nbytes-1 digits, at most
\* nine of them used, scaled to nanoseconds
ParseNanoseconds(value, nbytes) ==
  LET nb == IF nbytes > 10 THEN 10 ELSE nbytes
  IN Atoi(SubSeq(value, 2, nb)) * Pow10(10 - nb)

HasFraction(value) == Len(value) >= 2 /\ value[1] \in {".", ","} /\ isDigit(value, 1)

NoFields == [h |-> 0, m |-> 0, s |-> 0, ns |-> 0, pm |-> FALSE, am |-> FALSE]

ParseFail == [ok |-> FALSE, h |-> 0, m |-> 0, s |-> 0, ns |-> 0]

RECURSIVE ParseChunks(_, _, _, _)
ParseChunks(layout, i, value0, f) ==
  IF i > Len(layout)
  THEN \* no element left: the value must be used up
       IF value0 # <<>> THEN ParseFail
       ELSE [ok |-> TRUE,
             h |-> IF f.pm /\ f.h < 12 THEN f.h + 12
                   ELSE IF f.am /\ f.h = 12 THEN 0 ELSE f.h,
             m |-> f.m, s |-> f.s, ns |-> f.ns]
  ELSE
   LET sk == Skip(value0, layout[i].lit)
       value == sk.rest
       std == layout[i].std
       nextIsFrac == i < Len(layout) /\ layout[i + 1].lit = <<>>
                       /\ layout[i + 1].std = "stdFracSecond9"
   IN IF ~sk.ok THEN ParseFail
      ELSE CASE std = "stdHour" ->
             LET g == GetNum(value, FALSE)
             IN IF ~g.ok \/ g.n >= 24 THEN ParseFail
                ELSE ParseChunks(layout, i + 1, g.rest, [f EXCEPT !.h = g.n])
        [] std = "stdHour12" ->
             LET g == GetNum(value, FALSE)
             IN IF ~g.ok \/ g.n > 12 THEN ParseFail
                ELSE ParseChunks(layout, i + 1, g.rest, [f EXCEPT !.h = g.n])
        [] std = "stdZeroMinute" ->
             LET g == GetNum(value, TRUE)
             IN IF ~g.ok \/ g.n >= 60 THEN ParseFail
                ELSE ParseChunks(layout, i + 1, g.rest, [f EXCEPT !.m = g.n])
        [] std = "stdZeroSecond" ->
             LET g == GetNum(value, TRUE)
             IN IF ~g.ok \/ g.n >= 60 THEN ParseFail
                ELSE IF HasFraction(g.rest) /\ ~nextIsFrac
                  THEN \* a fraction the layout does not announce is accepted
                       LET n == DigitRun(g.rest, 2)
                       IN ParseChunks(layout, i + 1, Drop(g.rest, n),
                            [f EXCEPT !.s = g.n, !.ns = ParseNanoseconds(g.rest, n)])
                  ELSE ParseChunks(layout, i + 1, g.rest, [f EXCEPT !.s = g.n])
        [] std = "stdFracSecond9" ->
             IF ~HasFraction(value)
             THEN ParseChunks(layout, i + 1, value, f)
             ELSE LET n == DigitRun(value, 1)
                  IN ParseChunks(layout, i + 1, Drop(value, n),
                       [f EXCEPT !.ns = ParseNanoseconds(value, n)])
        [] std = "stdPM" ->
             IF Len(value) < 2 THEN ParseFail
             ELSE IF Take(value, 2) = <<"P", "M">>
               THEN ParseChunks(layout, i + 1, Drop(value, 2), [f EXCEPT !.pm = TRUE])
             ELSE IF Take(value, 2) = <<"A", "M">>
               THEN ParseChunks(layout, i + 1, Drop(value, 2), [f EXCEPT !.am = TRUE])
             ELSE ParseFail
        [] OTHER -> \* stdNumColonTZ, "-07:00": the offset is validated; it
                    \* does not change the Hour, Minute, Second that are read
             LET hh == GetNum(SubSeq(value, 2, 3), TRUE)
                 mm == GetNum(SubSeq(value, 5, 6), TRUE)
             IN IF Len(value) < 6 THEN ParseFail
                ELSE IF value[4] # ":" \/ value[1] \notin {"+", "-"} THEN ParseFail
                ELSE IF ~hh.ok \/ ~mm.ok \/ hh.n > 24 \/ mm.n > 60 THEN ParseFail
                ELSE ParseChunks(layout, i + 1, Drop(value, 6), f)

\* time.Parse(layout, value): ok, and the Hour, Minute, Second, Nanosecond
\* of the parsed time
TimeParseLayout(layout, value) == ParseChunks(layout, 1, value, NoFields)

\* the first layout of the list that parses the value, if any
RECURSIVE FirstOk(_, _)
FirstOk(parsed, i) ==
  IF i > Len(parsed) THEN ParseFail
  ELSE IF parsed[i].ok THEN parsed[i] ELSE FirstOk(parsed, i + 1)

FirstParse(formats, value) ==
  FirstOk([i \in 1..Len(formats) |-> TimeParseLayout(formats[i], value)], 1)

\* time.Time.Format("15:04:05")
TwoDigits(n) == <<DigitChars[(n \div 10) + 1], DigitChars[(n % 10) + 1]>>

FormatTime(t) ==
  TwoDigits(Hour(t)) \o <<":">> \o TwoDigits(Minute(t)) \o <<":">> \o TwoDigits(Second(t))

(***************************************************************************)
(* Host values handed to Append/AppendRow.  One record shape for all:      *)
(* tag is the Go type, n an integer, t an instant, valid the Valid flag of *)
(* a sql.NullTime, isnil a nil pointer, s a string, items the elements of  *)
(* a slice, vk what a driver.Valuer produces.                              *)
(***************************************************************************)
Val(tag) == [tag |-> tag, n |-> 0, t |-> ZeroTime, valid |-> FALSE,
             isnil |-> FALSE, s |-> <<>>, items |-> <<>>, vk |-> ""]

VInt(n) == [Val("int64") EXCEPT !.n = n]

VPInt(n) == [Val("*int64") EXCEPT !.n = n]

VPIntNil == [Val("*int64") EXCEPT !.isnil = TRUE]

VTime(t) == [Val("time.Time") EXCEPT !.t = t]

VPTime(t) == [Val("*time.Time") EXCEPT !.t = t]

VPTimeNil == [Val("*time.Time") EXCEPT !.isnil = TRUE]

VNullTime(valid, t) == [Val("sql.NullTime") EXCEPT !.valid = valid, !.t = t]

VPNullTime(valid, t) == [Val("*sql.NullTime") EXCEPT !.valid = valid, !.t = t]

VPNullTimeNil == [Val("*sql.NullTime") EXCEPT !.isnil = TRUE]

VString(s) == [Val("string") EXCEPT !.s = s]

VNil == Val("nil")

VFloat == Val("float64")

VValuer(vk) == [Val("Valuer") EXCEPT !.vk = vk]

VSlice(tag, items) == [Val(tag) EXCEPT !.items = items]

\* errors returned to the caller
NoErr == [kind |-> "", op |-> "", from |-> "", to |-> "", hint |-> ""]

Err(kind) == [NoErr EXCEPT !.kind = kind]

ColumnConverterError(op, to, from, hint) ==
  [kind |-> "ColumnConverterError", op |-> op, from |-> from, to |-> to, hint |-> hint]

\* driver.Valuer.Value() of the value-producing objects of the model
ValuerValue(v) ==
  CASE v.vk = "int64" -> [ok |-> TRUE, val |-> VInt(45045)]
    [] v.vk = "valuer" -> [ok |-> TRUE, val |-> VValuer("int64")]
    [] v.vk = "self" -> [ok |-> TRUE, val |-> v]
    [] v.vk = "strings" ->
         [ok |-> TRUE, val |-> VSlice("[]string", <<VString(<<"1", "2", ":", "3", "0">>)>>)]
    [] OTHER -> [ok |-> FALSE, val |-> VNil]

(***************************************************************************)
(* The row store (proto.ColTime, proto.ColTime64 of ch-go): it keeps one   *)
(* tick per row, the time of day of the appended instant at the column's   *)
(* scale, and gives a row back as an instant of the sentinel day in UTC.   *)
(* A tick is [sec, frac]: sec whole seconds and frac units of 10^-p s,     *)
(* that is the integer sec * 10^p + frac.                                  *)
(***************************************************************************)
ColTime_Append(t) == [sec |-> Hour(t) * 3600 + Minute(t) * 60 + Second(t), frac |-> 0]

ColTime_Row(tick) == TimeDate(0, 0, 0, tick.sec, 0, "UTC")

ColTime64_Append(t, p) ==
  [sec |-> Hour(t) * 3600 + Minute(t) * 60 + Second(t),
   frac |-> Nanosecond(t) \div Pow10(9 - p)]

ColTime64_Row(tick, p) == TimeDate(0, 0, 0, tick.sec, tick.frac * Pow10(9 - p), "UTC")

\* timezone.Load(name): the zones the registry resolves
timezone_Load(name) ==
  IF name = <<"U", "T", "C">> THEN [ok |-> TRUE, loc |-> "UTC"]
  ELSE IF name = <<"A", "s", "i", "a", "/", "D", "u", "b", "a", "i">>
    THEN [ok |-> TRUE, loc |-> "Asia/Dubai"]
  ELSE [ok |-> FALSE, loc |-> NilLoc]

(***************************************************************************)
(* Time column (seconds).                                                  *)
(***************************************************************************)
\* parse: the fields of the column after the call, and the error returned.
\* cur is the timezone field before the call.
Time_parse(t, tz, cur) ==
  IF HasPrefix(t, <<"T", "i", "m", "e", "(", "'">>)
  THEN LET timezoneName == TrimSuffix(TrimPrefix(t, <<"T", "i", "m", "e", "(", "'">>), <<"'", ")">>)
           ld == timezone_Load(timezoneName)
       IN IF ~ld.ok THEN [err |-> Err("timezone"), chType |-> t, timezone |-> cur]
          ELSE [err |-> NoErr, chType |-> t, timezone |-> ld.loc]
  ELSE IF t = <<"T", "i", "m", "e">>
  THEN [err |-> NoErr, chType |-> t, timezone |-> tz]
  ELSE [err |-> Err("UnsupportedColumnTypeError"), chType |-> t, timezone |-> cur]

\* row(i): the stored row, moved into the column's timezone if it has one
Time_row(tick, tz) ==
  LET t == ColTime_Row(tick)
  IN IF tz # NilLoc THEN TimeIn(t, tz) ELSE t


\* as Time_fromSeconds, with the minutes taken from the whole count
Time_fromSeconds_m(seconds, loc) ==
  LET hours == GoDiv(seconds, 3600)
      minutes == GoDiv(seconds, 60)
      secs == GoMod(seconds, 60)
  IN TimeDate(0, hours, minutes, secs, 0, loc)

\* seconds since midnight to time.Time, as Append and AppendRow do it
Time_fromSeconds(seconds, loc) ==
  LET hours == GoDiv(seconds, 3600)
      minutes == GoDiv(GoMod(seconds, 3600), 60)
      secs == GoMod(seconds, 60)
  IN TimeDate(0, hours, minutes, secs, 0, loc)

Time_formats == <<L_15_04_05, L_15_04, L_15_04_05_frac, L_15_04_05_frac,
                  L_15_04_05_frac, L_3_04_05_PM, L_3_04_PM, L_15_04_05_tz,
                  L_15_04_05_frac_tz>>


\* as Time_parseTime, with the parsed time converted to UTC before it is
\* returned
Time_parseTime_m(value, tz) ==
  LET tv == FirstParse(Time_formats, value)
      loc == IF tz # NilLoc THEN tz ELSE "UTC"
      pi == ParseInt(value, 64)
  IN IF tv.ok
     THEN [ok |-> TRUE, t |-> TimeIn(TimeDate(0, tv.h, tv.m, tv.s, tv.ns, loc), "UTC")]
     ELSE IF pi.ok THEN [ok |-> TRUE, t |-> TimeIn(Time_fromSeconds(pi.n, loc), "UTC")]
     ELSE [ok |-> FALSE, t |-> ZeroTime]

\* the time parseTime builds from t, the outcome of the formats, or else
\* from seconds, the outcome of strconv.ParseInt
Time_parsedTime(t, seconds, loc) ==
  IF t.ok THEN [ok |-> TRUE, t |-> TimeDate(0, t.h, t.m, t.s, t.ns, loc)]
  ELSE IF seconds.ok THEN [ok |-> TRUE, t |-> Time_fromSeconds(seconds.n, loc)]
  ELSE [ok |-> FALSE, t |-> ZeroTime]

Time_parseTime(value, tz) ==
  Time_parsedTime(FirstParse(Time_formats, value), ParseInt(value, 64),
                  IF tz # NilLoc THEN tz ELSE "UTC")

\* result of a write: the error returned, whether the call panicked, the
\* instants handed to col.col.Append in order, and the null indicators
Wrote(app) == [err |-> NoErr, panic |-> FALSE, app |-> app, nulls |-> <<>>]

Failed(err, app) == [err |-> err, panic |-> FALSE, app |-> app, nulls |-> <<>>]

Panicked(app) == [err |-> NoErr, panic |-> TRUE, app |-> app, nulls |-> <<>>]

\* case string of AppendRow, for timeValue the outcome of parseTime
Time_appendParsed(timeValue) ==
  IF ~timeValue.ok THEN Failed(Err("cannot parse time value"), <<>>)
  ELSE Wrote(<<timeValue.t>>)

RECURSIVE Time_AppendRow(_, _)
Time_AppendRow(v, tz) ==
  CASE v.tag = "int64" -> Wrote(<<Time_fromSeconds(v.n, "UTC")>>)
    [] v.tag = "*int64" ->
         IF ~v.isnil THEN Wrote(<<Time_fromSeconds(v.n, "UTC")>>) ELSE Wrote(<<ZeroTime>>)
    [] v.tag = "time.Time" -> Wrote(<<v.t>>)
    [] v.tag = "*time.Time" -> IF ~v.isnil THEN Wrote(<<v.t>>) ELSE Wrote(<<ZeroTime>>)
    [] v.tag = "sql.NullTime" -> IF v.valid THEN Wrote(<<v.t>>) ELSE Wrote(<<ZeroTime>>)
    [] v.tag = "*sql.NullTime" ->
         \* v.Valid dereferences the pointer
         IF v.isnil THEN Panicked(<<>>)
         ELSE IF v.valid THEN Wrote(<<v.t>>) ELSE Wrote(<<ZeroTime>>)
    [] v.tag = "nil" -> Wrote(<<ZeroTime>>)
    [] v.tag = "string" ->
         Time_appendParsed(Time_parseTime(v.s, tz))
    [] v.tag = "Valuer" ->
         LET val == ValuerValue(v)
         IN IF ~val.ok
            THEN Failed(ColumnConverterError("AppendRow", "Time", v.tag,
                                             "could not get driver.Valuer value"), <<>>)
            ELSE IF val.val = v
              THEN \* AppendRow(val) is the same call again, without end: the
                   \* goroutine's stack runs out and the program is stopped
                   Panicked(<<>>)
            ELSE Time_AppendRow(val.val, tz)
    [] OTHER -> Failed(ColumnConverterError("AppendRow", "Time", v.tag, ""), <<>>)

\* the index, from i on, of the first element of the loop at which bad holds
\* (0 if there is none)
RECURSIVE FirstBad(_, _)
FirstBad(bad, i) ==
  IF i > Len(bad) THEN 0
  ELSE IF bad[i] THEN i ELSE FirstBad(bad, i + 1)

ZeroNulls(items) == [i \in 1..Len(items) |-> 0]

\* as Time_appendSlice, with nulls[i] = 1 left out of the []*int64 loop
Time_appendSlice_m(v, rows, parsed) ==
  LET n == Len(v.items)
  IN
  CASE v.tag = "[]int64" ->
         [Wrote([i \in 1..n |-> Time_fromSeconds(v.items[i].n, "UTC")])
            EXCEPT !.nulls = ZeroNulls(v.items)]
    [] v.tag = "[]*int64" ->
         [Wrote([i \in 1..n |->
                   IF ~v.items[i].isnil THEN Time_fromSeconds(v.items[i].n, "UTC")
                   ELSE ZeroTime])
            EXCEPT !.nulls = ZeroNulls(v.items)]
    [] v.tag = "[]time.Time" ->
         [Wrote([i \in 1..n |-> v.items[i].t]) EXCEPT !.nulls = ZeroNulls(v.items)]
    [] v.tag = "[]*time.Time" ->
         [Wrote([i \in 1..n |-> IF ~v.items[i].isnil THEN v.items[i].t ELSE ZeroTime])
            EXCEPT !.nulls = [i \in 1..n |-> IF v.items[i].isnil THEN 1 ELSE 0]]
    [] v.tag = "[]sql.NullTime" ->
         \* nulls stays all zero: the loop only calls AppendRow
         [Wrote([i \in 1..n |-> rows[i].app[1]]) EXCEPT !.nulls = ZeroNulls(v.items)]
    [] v.tag = "[]*sql.NullTime" ->
         LET k == FirstBad([i \in 1..n |-> v.items[i].isnil], 1)
         IN IF k # 0
            THEN \* AppendRow(v[k]) dereferences the nil pointer
                 Panicked([i \in 1..(k - 1) |-> rows[i].app[1]])
            ELSE [Wrote([i \in 1..n |-> rows[i].app[1]])
                    EXCEPT !.nulls = ZeroNulls(v.items)]
    [] v.tag = "[]string" ->
         LET k == FirstBad([i \in 1..n |-> ~parsed[i].ok], 1)
         IN IF k # 0
            THEN \* the elements before k are already in the column
                 Failed(Err("cannot parse time value"), [i \in 1..(k - 1) |-> parsed[i].t])
            ELSE [Wrote([i \in 1..n |-> parsed[i].t])
                    EXCEPT !.nulls = ZeroNulls(v.items)]
    [] OTHER -> Failed(ColumnConverterError("Append", "Time", v.tag, ""), <<>>)

\* the loops of Append over a slice: rows[i] is the outcome of
\* AppendRow(v[i]) and parsed[i] that of parseTime(v[i])
Time_appendSlice(v, rows, parsed) ==
  LET n == Len(v.items)
  IN
  CASE v.tag = "[]int64" ->
         [Wrote([i \in 1..n |-> Time_fromSeconds(v.items[i].n, "UTC")])
            EXCEPT !.nulls = ZeroNulls(v.items)]
    [] v.tag = "[]*int64" ->
         [Wrote([i \in 1..n |->
                   IF ~v.items[i].isnil THEN Time_fromSeconds(v.items[i].n, "UTC")
                   ELSE ZeroTime])
            EXCEPT !.nulls = [i \in 1..n |-> IF v.items[i].isnil THEN 1 ELSE 0]]
    [] v.tag = "[]time.Time" ->
         [Wrote([i \in 1..n |-> v.items[i].t]) EXCEPT !.nulls = ZeroNulls(v.items)]
    [] v.tag = "[]*time.Time" ->
         [Wrote([i \in 1..n |-> IF ~v.items[i].isnil THEN v.items[i].t ELSE ZeroTime])
            EXCEPT !.nulls = [i \in 1..n |-> IF v.items[i].isnil THEN 1 ELSE 0]]
    [] v.tag = "[]sql.NullTime" ->
         \* nulls stays all zero: the loop only calls AppendRow
         [Wrote([i \in 1..n |-> rows[i].app[1]]) EXCEPT !.nulls = ZeroNulls(v.items)]
    [] v.tag = "[]*sql.NullTime" ->
         LET k == FirstBad([i \in 1..n |-> v.items[i].isnil], 1)
         IN IF k # 0
            THEN \* AppendRow(v[k]) dereferences the nil pointer
                 Panicked([i \in 1..(k - 1) |-> rows[i].app[1]])
            ELSE [Wrote([i \in 1..n |-> rows[i].app[1]])
                    EXCEPT !.nulls = ZeroNulls(v.items)]
    [] v.tag = "[]string" ->
         LET k == FirstBad([i \in 1..n |-> ~parsed[i].ok], 1)
         IN IF k # 0
            THEN \* the elements before k are already in the column
                 Failed(Err("cannot parse time value"), [i \in 1..(k - 1) |-> parsed[i].t])
            ELSE [Wrote([i \in 1..n |-> parsed[i].t])
                    EXCEPT !.nulls = ZeroNulls(v.items)]
    [] OTHER -> Failed(ColumnConverterError("Append", "Time", v.tag, ""), <<>>)

RECURSIVE Time_Append(_, _)
Time_Append(v, tz) ==
  IF v.tag = "Valuer"
  THEN IF ~ValuerValue(v).ok
       THEN Failed(ColumnConverterError("Append", "Time", v.tag,
                                        "could not get driver.Valuer value"), <<>>)
       ELSE IF ValuerValue(v).val = v
         THEN \* Append(val) is the same call again, without end: the
              \* goroutine's stack runs out and the program is stopped
              Panicked(<<>>)
       ELSE Time_Append(ValuerValue(v).val, tz)
  ELSE Time_appendSlice(v,
         [i \in 1..Len(v.items) |-> Time_AppendRow(v.items[i], tz)],
         [i \in 1..Len(v.items) |-> Time_parseTime(v.items[i].s, tz)])

\* result of a read: the error returned and the value left in *dest
Scanned(out) == [err |-> NoErr, out |-> out]

\* sql.NullTime.Scan(t) for an instant t
NullTime_Scan(t) == VNullTime(TRUE, t)

\* as Time_ScanRow, with nil returned for a destination of no known shape
Time_ScanRow_m(dest, tick, tz) ==
  LET t == Time_row(tick, tz)
      secs == Hour(t) * 3600 + Minute(t) * 60 + Second(t)
  IN CASE dest = "*time.Time" -> Scanned(VTime(t))
       [] dest = "**time.Time" -> Scanned(VPTime(t))
       [] dest = "*int64" -> Scanned(VInt(secs))
       [] dest = "**int64" -> Scanned(VPInt(secs))
       [] dest = "*sql.NullTime" -> Scanned(NullTime_Scan(t))
       [] dest = "*string" -> Scanned(VString(FormatTime(t)))
       [] dest = "**string" -> Scanned([Val("*string") EXCEPT !.s = FormatTime(t)])
       [] dest = "sql.Scanner" -> Scanned([Val("sql.Scanner") EXCEPT !.t = t])
       [] OTHER -> [err |-> NoErr, out |-> Val("unset")]

Time_ScanRow(dest, tick, tz) ==
  LET t == Time_row(tick, tz)
      secs == Hour(t) * 3600 + Minute(t) * 60 + Second(t)
  IN CASE dest = "*time.Time" -> Scanned(VTime(t))
       [] dest = "**time.Time" -> Scanned(VPTime(t))
       [] dest = "*int64" -> Scanned(VInt(secs))
       [] dest = "**int64" -> Scanned(VPInt(secs))
       [] dest = "*sql.NullTime" -> Scanned(NullTime_Scan(t))
       [] dest = "*string" -> Scanned(VString(FormatTime(t)))
       [] dest = "**string" -> Scanned([Val("*string") EXCEPT !.s = FormatTime(t)])
       [] dest = "sql.Scanner" -> Scanned([Val("sql.Scanner") EXCEPT !.t = t])
       [] OTHER -> [err |-> ColumnConverterError("ScanRow", dest, "Time", ""),
                    out |-> Val("unset")]

(***************************************************************************)
(* Time64 column (sub-second, precision 0..9).                             *)
(***************************************************************************)

\* as Time64_parse, without the branch for a timezone parameter
Time64_parse_m(t, tz, cur) ==
  LET same == [err |-> NoErr, chType |-> t, timezone |-> cur.timezone,
               precision |-> cur.precision, precisionSet |-> cur.precisionSet]
      params == TrimSuffix(TrimPrefix(t, <<"T", "i", "m", "e", "6", "4", "(">>), <<")">>)
      prec == ParseInt(params, 8)
  IN IF ~HasPrefix(t, <<"T", "i", "m", "e", "6", "4", "(">>) THEN [same EXCEPT !.err = Err("UnsupportedColumnTypeError")]
     ELSE IF ~prec.ok THEN [same EXCEPT !.err = Err("strconv.ParseInt")]
     ELSE [same EXCEPT !.precision = prec.n % 256, !.precisionSet = TRUE,
                       !.timezone = tz]

\* parse: the fields of the column after the call, and the error returned.
\* cur holds the timezone, precision and precisionSet fields before the call.
Time64_parse(t, tz, cur) ==
  LET same == [err |-> NoErr, chType |-> t, timezone |-> cur.timezone,
               precision |-> cur.precision, precisionSet |-> cur.precisionSet]
  IN
  IF HasPrefix(t, <<"T", "i", "m", "e", "6", "4", "(">>)
  THEN IF Contains(t, ",")
       THEN LET parts == SplitComma(t)
                precisionStr == TrimSuffix(TrimPrefix(parts[1], <<"T", "i", "m", "e", "6", "4", "(">>), <<")">>)
                prec == ParseInt(precisionStr, 8)
                timezoneName == TrimSuffix(TrimPrefix(parts[2], <<" ", "'">>), <<"'", ")">>)
                ld == timezone_Load(timezoneName)
            IN IF Len(parts) # 2
               THEN [same EXCEPT !.err = Err("UnsupportedColumnTypeError")]
               ELSE IF ~prec.ok THEN [same EXCEPT !.err = Err("strconv.ParseInt")]
               ELSE IF ~ld.ok
                 THEN \* WithPrecision has already been applied
                      [same EXCEPT !.err = Err("timezone"),
                                   !.precision = prec.n % 256, !.precisionSet = TRUE]
               ELSE [same EXCEPT !.precision = prec.n % 256, !.precisionSet = TRUE,
                                 !.timezone = ld.loc]
       ELSE LET params == TrimSuffix(TrimPrefix(t, <<"T", "i", "m", "e", "6", "4", "(">>), <<")">>)
                prec == ParseInt(params, 8)
            IN IF ~prec.ok THEN [same EXCEPT !.err = Err("strconv.ParseInt")]
               ELSE [same EXCEPT !.precision = prec.n % 256, !.precisionSet = TRUE,
                                 !.timezone = tz]
  ELSE [same EXCEPT !.err = Err("UnsupportedColumnTypeError")]

\* row(i): the stored row, moved into the column's timezone if it has one
Time64_row(tick, tz, p) ==
  LET t == ColTime64_Row(tick, p)
  IN IF tz # NilLoc THEN TimeIn(t, tz) ELSE t


\* as Time64_fromMilliseconds, with the count taken as microseconds
Time64_fromMilliseconds_m(milliseconds, loc) ==
  LET seconds == GoDiv(milliseconds, 1000000)
      hours == GoDiv(seconds, 3600)
      minutes == GoDiv(GoMod(seconds, 3600), 60)
      secs == GoMod(seconds, 60)
      nsecs == GoMod(milliseconds, 1000000) * 1000
  IN TimeDate(0, hours, minutes, secs, nsecs, loc)

\* milliseconds since midnight to time.Time, as Append and AppendRow do it
Time64_fromMilliseconds(milliseconds, loc) ==
  LET seconds == GoDiv(milliseconds, 1000)
      hours == GoDiv(seconds, 3600)
      minutes == GoDiv(GoMod(seconds, 3600), 60)
      secs == GoMod(seconds, 60)
      nsecs == GoMod(milliseconds, 1000) * 1000000
  IN TimeDate(0, hours, minutes, secs, nsecs, loc)

Time64_formats == <<L_15_04_05, L_15_04, L_15_04_05_frac, L_15_04_05_frac,
                    L_15_04_05_frac, L_3_04_05_PM, L_3_04_PM, L_15_04_05_tz,
                    L_15_04_05_frac_tz, L_15_04_05_frac_tz, L_15_04_05_frac_tz>>

\* the time parseTime builds from t, the outcome of the formats, or else
\* from milliseconds, the outcome of strconv.ParseInt
Time64_parsedTime(t, milliseconds, loc) ==
  IF t.ok THEN [ok |-> TRUE, t |-> TimeDate(0, t.h, t.m, t.s, t.ns, loc)]
  ELSE IF milliseconds.ok
    THEN [ok |-> TRUE, t |-> Time64_fromMilliseconds(milliseconds.n, loc)]
  ELSE [ok |-> FALSE, t |-> ZeroTime]

Time64_parseTime(value, tz) ==
  Time64_parsedTime(FirstParse(Time64_formats, value), ParseInt(value, 64),
                    IF tz # NilLoc THEN tz ELSE "UTC")

\* case string of AppendRow, for timeValue the outcome of parseTime
Time64_appendParsed(timeValue) ==
  IF ~timeValue.ok THEN Failed(Err("cannot parse time64 value"), <<>>)
  ELSE Wrote(<<timeValue.t>>)

RECURSIVE Time64_AppendRow(_, _)
Time64_AppendRow(v, tz) ==
  CASE v.tag = "int64" -> Wrote(<<Time64_fromMilliseconds(v.n, "UTC")>>)
    [] v.tag = "*int64" ->
         IF ~v.isnil THEN Wrote(<<Time64_fromMilliseconds(v.n, "UTC")>>)
         ELSE Wrote(<<ZeroTime>>)
    [] v.tag = "time.Time" -> Wrote(<<v.t>>)
    [] v.tag = "*time.Time" -> IF ~v.isnil THEN Wrote(<<v.t>>) ELSE Wrote(<<ZeroTime>>)
    [] v.tag = "sql.NullTime" -> IF v.valid THEN Wrote(<<v.t>>) ELSE Wrote(<<ZeroTime>>)
    [] v.tag = "*sql.NullTime" ->
         \* v.Valid dereferences the pointer
         IF v.isnil THEN Panicked(<<>>)
         ELSE IF v.valid THEN Wrote(<<v.t>>) ELSE Wrote(<<ZeroTime>>)
    [] v.tag = "string" ->
         Time64_appendParsed(Time64_parseTime(v.s, tz))
    [] v.tag = "nil" -> Wrote(<<ZeroTime>>)
    [] v.tag = "Valuer" ->
         LET val == ValuerValue(v)
         IN IF ~val.ok
            THEN Failed(ColumnConverterError("AppendRow", "Time64", v.tag,
                                             "could not get driver.Valuer value"), <<>>)
            ELSE IF val.val = v
              THEN \* AppendRow(val) is the same call again, without end: the
                   \* goroutine's stack runs out and the program is stopped
                   Panicked(<<>>)
            ELSE Time64_AppendRow(val.val, tz)
    [] OTHER -> Failed(ColumnConverterError("AppendRow", "Time64", v.tag, ""), <<>>)

\* the loops of Append over a slice: rows[i] is the outcome of
\* AppendRow(v[i]) and parsed[i] that of parseTime(v[i])
Time64_appendSlice(v, rows, parsed) ==
  LET n == Len(v.items)
  IN
  CASE v.tag = "[]int64" ->
         [Wrote([i \in 1..n |-> Time64_fromMilliseconds(v.items[i].n, "UTC")])
            EXCEPT !.nulls = ZeroNulls(v.items)]
    [] v.tag = "[]*int64" ->
         [Wrote([i \in 1..n |->
                   IF ~v.items[i].isnil THEN Time64_fromMilliseconds(v.items[i].n, "UTC")
                   ELSE ZeroTime])
            EXCEPT !.nulls = [i \in 1..n |-> IF v.items[i].isnil THEN 1 ELSE 0]]
    [] v.tag = "[]time.Time" ->
         [Wrote([i \in 1..n |-> v.items[i].t]) EXCEPT !.nulls = ZeroNulls(v.items)]
    [] v.tag = "[]*time.Time" ->
         [Wrote([i \in 1..n |-> IF ~v.items[i].isnil THEN v.items[i].t ELSE ZeroTime])
            EXCEPT !.nulls = [i \in 1..n |-> IF v.items[i].isnil THEN 1 ELSE 0]]
    [] v.tag = "[]sql.NullTime" ->
         \* nulls stays all zero: the loop only calls AppendRow
         [Wrote([i \in 1..n |-> rows[i].app[1]]) EXCEPT !.nulls = ZeroNulls(v.items)]
    [] v.tag = "[]*sql.NullTime" ->
         LET k == FirstBad([i \in 1..n |-> v.items[i].isnil], 1)
         IN IF k # 0
            THEN \* AppendRow(v[k]) dereferences the nil pointer
                 Panicked([i \in 1..(k - 1) |-> rows[i].app[1]])
            ELSE [Wrote([i \in 1..n |-> rows[i].app[1]])
                    EXCEPT !.nulls = ZeroNulls(v.items)]
    [] v.tag = "[]string" ->
         LET k == FirstBad([i \in 1..n |-> ~parsed[i].ok], 1)
         IN IF k # 0
            THEN \* the elements before k are already in the column
                 Failed(Err("cannot parse time64 value"), [i \in 1..(k - 1) |-> parsed[i].t])
            ELSE [Wrote([i \in 1..n |-> parsed[i].t])
                    EXCEPT !.nulls = ZeroNulls(v.items)]
    [] OTHER -> Failed(ColumnConverterError("Append", "Time64", v.tag, ""), <<>>)

RECURSIVE Time64_Append(_, _)
Time64_Append(v, tz) ==
  IF v.tag = "Valuer"
  THEN IF ~ValuerValue(v).ok
       THEN Failed(ColumnConverterError("Append", "Time64", v.tag,
                                        "could not get driver.Valuer value"), <<>>)
       ELSE IF ValuerValue(v).val = v
         THEN \* Append(val) is the same call again, without end: the
              \* goroutine's stack runs out and the program is stopped
              Panicked(<<>>)
       ELSE Time64_Append(ValuerValue(v).val, tz)
  ELSE Time64_appendSlice(v,
         [i \in 1..Len(v.items) |-> Time64_AppendRow(v.items[i], tz)],
         [i \in 1..Len(v.items) |-> Time64_parseTime(v.items[i].s, tz)])

Time64_ScanRow(dest, tick, tz, p) ==
  LET t == Time64_row(tick, tz, p)
      ms == Hour(t) * 3600000 + Minute(t) * 60000 + Second(t) * 1000
              + (Nanosecond(t) \div 1000000)
  IN CASE dest = "*time.Time" -> Scanned(VTime(t))
       [] dest = "**time.Time" -> Scanned(VPTime(t))
       [] dest = "*int64" -> Scanned(VInt(ms))
       [] dest = "**int64" -> Scanned(VPInt(ms))
       [] dest = "*sql.NullTime" -> Scanned(NullTime_Scan(t))
       [] dest = "sql.Scanner" -> Scanned([Val("sql.Scanner") EXCEPT !.t = t])
       [] OTHER -> \* *string and **string have no case and are no sql.Scanner
                   [err |-> ColumnConverterError("ScanRow", dest, "Time64", ""),
                    out |-> Val("unset")]

(***************************************************************************)
(* Inputs of the model.                                                    *)
(***************************************************************************)
TypeStrings ==
  {<<"T", "i", "m", "e">>,
   <<"T", "i", "m", "e", "(", "'", "U", "T", "C", "'", ")">>,
   <<"T", "i", "m", "e", "(", "'", "M", "a", "r", "s", "/", "B", "a", "s", "e", "'", ")">>,
   <<"D", "a", "t", "e", "T", "i", "m", "e">>,
   <<"T", "i", "m", "e", "6", "4", "(", "0", ")">>,
   <<"T", "i", "m", "e", "6", "4", "(", "3", ")">>,
   <<"T", "i", "m", "e", "6", "4", "(", "6", ")">>,
   <<"T", "i", "m", "e", "6", "4", "(", "9", ")">>,
   <<"T", "i", "m", "e", "6", "4", "(", "6", ",", " ", "'", "U", "T", "C", "'", ")">>,
   <<"T", "i", "m", "e", "6", "4", "(", "b", "a", "d", ")">>,
   <<"T", "i", "m", "e", "6", "4", "(", "3", ",", "4", ",", "5", ")">>,
   \* parameter lists that are not closed
   <<"T", "i", "m", "e", "(", "'", "U", "T", "C">>,
   <<"T", "i", "m", "e", "6", "4", "(", "3">>,
   \* precisions outside 0..9
   <<"T", "i", "m", "e", "6", "4", "(", "1", "2", ")">>,
   <<"T", "i", "m", "e", "6", "4", "(", "-", "1", ")">>,
   \* a precision followed by a zone that does not resolve
   <<"T", "i", "m", "e", "6", "4", "(", "6", ",", " ", "'", "M", "a", "r", "s", "/",
     "B", "a", "s", "e", "'", ")">>}

\* the default timezone handed to parse
DefaultZones == {NilLoc, "Asia/Dubai"}

\* 2024-01-01 08:15:30 UTC
T_081530 == [day |-> 19723, sec |-> 8 * 3600 + 15 * 60 + 30, ns |-> 0, loc |-> "UTC"]

\* 1970-01-01 12:30:45.123456789 in Asia/Dubai
T_123045_Dubai == [day |-> 0, sec |-> 12 * 3600 + 30 * 60 + 45, ns |-> 123456789,
                   loc |-> "Asia/Dubai"]

S_123045 == <<"1", "2", ":", "3", "0", ":", "4", "5">>

S_123045_123456 == <<"1", "2", ":", "3", "0", ":", "4", "5", ".", "1", "2", "3", "4", "5", "6">>

S_45045 == <<"4", "5", "0", "4", "5">>

S_bad == <<"b", "a", "d">>

IntInputs == {-1, 45045, 86400000}

StringInputs == {S_123045, S_123045_123456, S_45045, S_bad}

RowInputs ==
  {VInt(n) : n \in IntInputs}
    \cup {VPIntNil, VTime(T_123045_Dubai), VPTimeNil}
    \cup {VNullTime(TRUE, T_081530), VNullTime(FALSE, ZeroTime)}
    \cup {VPNullTime(TRUE, T_081530), VPNullTimeNil}
    \cup {VString(x) : x \in StringInputs}
    \cup {VNil, VFloat, VValuer("int64"), VValuer("valuer"), VValuer("error"),
          VValuer("self")}

\* the slices of at most MaxBatch elements: copies of the element e, with
\* at most one of them replaced by the element x
Slices(tag, e, x) ==
  {VSlice(tag, [i \in 1..n |-> IF i = k THEN x ELSE e]) : n \in 1..MaxBatch, k \in 0..MaxBatch}

BatchInputs ==
  Slices("[]int64", VInt(45045), VInt(-1))
    \cup Slices("[]*int64", VPInt(45045), VPIntNil)
    \cup Slices("[]time.Time", VTime(T_081530), VTime(T_081530))
    \cup Slices("[]*time.Time", VPTime(T_081530), VPTimeNil)
    \cup Slices("[]sql.NullTime", VNullTime(TRUE, T_081530), VNullTime(FALSE, ZeroTime))
    \cup Slices("[]*sql.NullTime", VPNullTime(TRUE, T_081530), VPNullTimeNil)
    \cup Slices("[]string", VString(S_123045), VString(S_bad))
    \cup {VValuer("strings"), VValuer("error"), VValuer("self"), VFloat}

Dests == {"*time.Time", "**time.Time", "*int64", "**int64", "*sql.NullTime",
          "*string", "**string", "sql.Scanner", "*float64"}

AllZones == {NilLoc} \cup Locations

\* the results of the write operations on the inputs of the model, computed
\* once
Time_AppendRow_of == [v \in RowInputs, tz \in AllZones |-> Time_AppendRow(v, tz)]

Time64_AppendRow_of == [v \in RowInputs, tz \in AllZones |-> Time64_AppendRow(v, tz)]

Time_Append_of == [v \in BatchInputs, tz \in AllZones |-> Time_Append(v, tz)]

Time64_Append_of == [v \in BatchInputs, tz \in AllZones |-> Time64_Append(v, tz)]

(***************************************************************************)
(* The state machine: one column, constructed, then configured by parse,   *)
(* then written and read.                                                  *)
(*   data     the rows of col.col, one tick each                           *)
(*   written  for each row, the host value it was written from             *)
(*   last     the last call: its arguments, what it returned, and the rows *)
(*            before it                                                    *)
(*   panicked the last call panicked instead of returning                  *)
(***************************************************************************)
NoLast == [op |-> "", arg |-> Val("none"), tz |-> NilLoc, dest |-> "", row |-> 0,
           err |-> NoErr, nulls |-> <<>>, out |-> Val("none"), before |-> <<>>,
           app |-> <<>>]

Init ==
  /\ colKind \in {"Time", "Time64"}
  /\ phase = "new"
  /\ chType = <<>>
  /\ timezone = NilLoc
  /\ precision = 0
  /\ precisionSet = FALSE
  /\ data = <<>>
  /\ written = <<>>
  /\ last = NoLast
  /\ panicked = FALSE

TimeParse(t, tz) ==
  /\ colKind = "Time"
  /\ phase = "new"
  /\ LET r == Time_parse(t, tz, timezone)
     IN /\ chType' = r.chType
        /\ timezone' = r.timezone
        /\ phase' = IF r.err = NoErr THEN "ready" ELSE "failed"
        /\ last' = [NoLast EXCEPT !.op = "parse", !.arg = VString(t), !.tz = tz,
                                  !.err = r.err]
  /\ UNCHANGED <<colKind, precision, precisionSet, data, written, panicked>>

Time64Parse(t, tz) ==
  /\ colKind = "Time64"
  /\ phase = "new"
  /\ LET r == Time64_parse(t, tz, [timezone |-> timezone, precision |-> precision,
                                   precisionSet |-> precisionSet])
     IN /\ chType' = r.chType
        /\ timezone' = r.timezone
        /\ precision' = r.precision
        /\ precisionSet' = r.precisionSet
        /\ phase' = IF r.err = NoErr THEN "ready" ELSE "failed"
        /\ last' = [NoLast EXCEPT !.op = "parse", !.arg = VString(t), !.tz = tz,
                                  !.err = r.err]
  /\ UNCHANGED <<colKind, data, written, panicked>>

\* the ticks col.col keeps for the instants appended to it
StoreTicks(app) ==
  [i \in 1..Len(app) |->
     IF colKind = "Time" THEN ColTime_Append(app[i])
     ELSE ColTime64_Append(app[i], precision)]

Usable == phase = "ready" /\ ~panicked /\ (colKind = "Time64" => precision <= 9)

\* the elements a slice (or the slice a Valuer produces) is made of
Elements(v) == IF v.tag = "Valuer" THEN ValuerValue(v).val.items ELSE v.items

AppendRowStep(v, r) ==
  /\ Usable
  /\ Len(data) + Len(r.app) <= MaxRows
  /\ data' = data \o StoreTicks(r.app)
  /\ written' = written \o [i \in 1..Len(r.app) |-> v]
  /\ panicked' = r.panic
  /\ last' = [NoLast EXCEPT !.op = "AppendRow", !.arg = v, !.err = r.err,
                            !.before = data, !.app = r.app]
  /\ UNCHANGED <<colKind, phase, chType, timezone, precision, precisionSet>>

TimeAppendRow(v) ==
  /\ colKind = "Time"
  /\ \E r \in {Time_AppendRow_of[v, timezone]} : AppendRowStep(v, r)

Time64AppendRow(v) ==
  /\ colKind = "Time64"
  /\ \E r \in {Time64_AppendRow_of[v, timezone]} : AppendRowStep(v, r)

AppendStep(v, r) ==
  /\ Usable
  /\ Len(data) < MaxRows \/ r.app = <<>>
  /\ data' = data \o StoreTicks(r.app)
  /\ written' = written \o SubSeq(Elements(v), 1, Len(r.app))
  /\ panicked' = r.panic
  /\ last' = [NoLast EXCEPT !.op = "Append", !.arg = v, !.err = r.err,
                            !.nulls = r.nulls, !.before = data, !.app = r.app]
  /\ UNCHANGED <<colKind, phase, chType, timezone, precision, precisionSet>>

TimeAppend(v) ==
  /\ colKind = "Time"
  /\ \E r \in {Time_Append_of[v, timezone]} : AppendStep(v, r)

Time64Append(v) ==
  /\ colKind = "Time64"
  /\ \E r \in {Time64_Append_of[v, timezone]} : AppendStep(v, r)

ScanRowStep(dest, row, r) ==
  /\ last' = [NoLast EXCEPT !.op = "ScanRow", !.dest = dest, !.row = row,
                            !.err = r.err, !.out = r.out, !.before = data]
  /\ UNCHANGED <<colKind, phase, chType, timezone, precision, precisionSet, data,
                 written, panicked>>

TimeScanRow(dest, row) ==
  /\ colKind = "Time"
  /\ Usable
  /\ row \in 1..Len(data)
  /\ \E r \in {Time_ScanRow(dest, data[row], timezone)} : ScanRowStep(dest, row, r)

Time64ScanRow(dest, row) ==
  /\ colKind = "Time64"
  /\ Usable
  /\ row \in 1..Len(data)
  /\ \E r \in {Time64_ScanRow(dest, data[row], timezone, precision)} :
       ScanRowStep(dest, row, r)

Reset ==
  /\ Usable
  /\ data # <<>>
  /\ data' = <<>>
  /\ written' = <<>>
  /\ last' = [NoLast EXCEPT !.op = "Reset", !.before = data]
  /\ UNCHANGED <<colKind, phase, chType, timezone, precision, precisionSet, panicked>>

Next ==
  \/ \E t \in TypeStrings, tz \in DefaultZones : TimeParse(t, tz)
  \/ \E t \in TypeStrings, tz \in DefaultZones : Time64Parse(t, tz)
  \/ \E v \in RowInputs : TimeAppendRow(v)
  \/ \E v \in RowInputs : Time64AppendRow(v)
  \/ \E v \in BatchInputs : TimeAppend(v)
  \/ \E v \in BatchInputs : Time64Append(v)
  \/ \E d \in Dests, row \in 1..MaxLen : TimeScanRow(d, row)
  \/ \E d \in Dests, row \in 1..MaxLen : Time64ScanRow(d, row)
  \/ Reset

Spec == Init /\ [][Next]_vars

(***************************************************************************)
(* Properties.                                                             *)
(***************************************************************************)
\* the rows the last call appended
Appended == SubSeq(data, Len(last.before) + 1, Len(data))

ZonelessOrUTC == timezone \in {NilLoc, "UTC"}

\* the last call read, into a signed integer, a row written from the int64 n
ReadIntOf(n) ==
  /\ last.op = "ScanRow"
  /\ last.dest \in {"*int64", "**int64"}
  /\ written[last.row].tag = "int64"
  /\ written[last.row].n = n

\* n is less than one day, counted in units of 10^-p seconds
WithinDay(n, p) == n \div Pow10(p) < 86400

\* C1 as claimed: on a zoneless or UTC column, a non-negative tick count
\* within the day at the column's scale (seconds for Time, 10^-p s for
\* Time64 of precision p) written as a signed integer reads back, as a signed
\* integer, as the same count.
C1_TickRoundTrip ==
  \A n \in IntInputs :
    (/\ Usable /\ ZonelessOrUTC /\ ReadIntOf(n) /\ n >= 0
     /\ WithinDay(n, IF colKind = "Time" THEN 0 ELSE precision))
      => last.out.n = n

\* C1 as amended: the round trip holds for the Time column with counts of
\* seconds below 86400, and for the Time64 column of precision 3..9 with
\* counts of milliseconds below 86400000.
C1_TickRoundTripAmended ==
  \A n \in IntInputs :
    (/\ Usable /\ ZonelessOrUTC /\ ReadIntOf(n) /\ n >= 0
     /\ \/ colKind = "Time" /\ WithinDay(n, 0)
        \/ colKind = "Time64" /\ precision >= 3 /\ WithinDay(n, 3))
      => last.out.n = n

C1_Witness ==
  /\ colKind = "Time64" /\ precision = 6 /\ ZonelessOrUTC
  /\ ReadIntOf(45045) /\ last.out.n = 45045

\* C2: when Append returns an error, the column holds the rows it held before
\* the call and no others.
C2_FailedAppendLeavesColumn ==
  (last.op = "Append" /\ last.err # NoErr) => data = last.before

\* C3: a successful batch Append of []sql.NullTime gives, for each element,
\* null indicator 1 and the sentinel zero instant when Valid is false, and
\* null indicator 0 and the wrapped instant when Valid is true.
C3_NullTimeIndicators ==
  (last.op = "Append" /\ last.arg.tag = "[]sql.NullTime" /\ last.err = NoErr /\ ~panicked)
    => /\ Len(last.nulls) = Len(last.arg.items)
       /\ Len(Appended) = Len(last.arg.items)
       /\ \A i \in 1..Len(last.arg.items) :
            LET e == last.arg.items[i]
            IN /\ last.nulls[i] = (IF e.valid THEN 0 ELSE 1)
               /\ Appended[i] = StoreTicks(<<IF e.valid THEN e.t ELSE ZeroTime>>)[1]

\* C4: no call of Append or AppendRow panics.
C4_NoPanic == ~panicked

\* C5: on a Time64 column ScanRow into a string or pointer-to-string
\* destination returns no error, and a row written from a string with a
\* fractional part reads back as text that begins with the string written.
C5_Time64ScanString ==
  (last.op = "ScanRow" /\ colKind = "Time64" /\ last.dest \in {"*string", "**string"})
    => /\ last.err = NoErr
       /\ (written[last.row] = VString(S_123045_123456) /\ precision >= 6 /\ ZonelessOrUTC)
            => HasPrefix(last.out.s, S_123045_123456)

\* a string of the form HH:MM:SS
IsHHMMSS(str) == Len(str) = 8 /\ TimeParseLayout(L_15_04_05, str).ok

\* C6: on a Time column, whatever its timezone, a row written from a valid
\* HH:MM:SS string reads back, as a string, as the string written.
C6_StringRoundTrip ==
  (/\ last.op = "ScanRow" /\ colKind = "Time" /\ last.dest \in {"*string", "**string"}
   /\ written[last.row].tag = "string" /\ IsHHMMSS(written[last.row].s))
    => last.out.s = written[last.row].s

\* C7: on a zoneless or UTC column a negative tick count written as a signed
\* integer reads back, as a signed integer, as the same negative count.
C7_SignPreserved ==
  \A n \in IntInputs :
    (Usable /\ ZonelessOrUTC /\ ReadIntOf(n) /\ n < 0) => last.out.n = n

\* what a column of the same kind and precision with timezone tz keeps for
\* the value v handed to AppendRow or Append
TicksWith(op, v, tz) ==
  StoreTicks(CASE op = "AppendRow" /\ colKind = "Time" -> Time_AppendRow_of[v, tz].app
               [] op = "AppendRow" /\ colKind = "Time64" -> Time64_AppendRow_of[v, tz].app
               [] op = "Append" /\ colKind = "Time" -> Time_Append_of[v, tz].app
               [] OTHER -> Time64_Append_of[v, tz].app)

MillisecondInstant(n) ==
  [day |-> n \div 86400000, sec |-> (n % 86400000) \div 1000,
   ns |-> (n % 1000) * 1000000, loc |-> "UTC"]

\* the tick of precision p that stands for the count n of units of 10^-p s
TickOf(n, p) == [sec |-> n \div Pow10(p), frac |-> n % Pow10(p)]

\* C9 as claimed: on a Time64 column of precision p a signed integer n is
\* kept as n units of 10^-p seconds, and reads back as n.
C9_UnitIsPrecision ==
  \A n \in IntInputs :
    /\ (/\ colKind = "Time64" /\ last.op = "AppendRow" /\ last.arg = VInt(n)
        /\ n >= 0 /\ WithinDay(n, precision))
         => Appended = <<TickOf(n, precision)>>
    /\ (/\ colKind = "Time64" /\ Usable /\ ZonelessOrUTC /\ ReadIntOf(n)
        /\ n >= 0 /\ WithinDay(n, precision))
         => last.out.n = n

\* C9 as amended: on a Time64 column a signed integer n is taken as n
\* milliseconds since midnight whatever the precision p, and ScanRow into a
\* signed integer gives milliseconds: for 0 <= n < 86400000 it gives n cut to
\* the precision of the column (n itself when p >= 3).
C9_UnitIsMilliseconds ==
  \A n \in IntInputs :
    /\ (colKind = "Time64" /\ last.op = "AppendRow" /\ last.arg = VInt(n))
         => last.app = <<MillisecondInstant(n)>>
    /\ (colKind = "Time64" /\ last.op = "Append" /\ last.arg.tag = "[]int64")
         => last.app = [i \in 1..Len(last.arg.items) |->
                          MillisecondInstant(last.arg.items[i].n)]
    /\ (/\ colKind = "Time64" /\ Usable /\ ZonelessOrUTC /\ ReadIntOf(n)
        /\ n >= 0 /\ WithinDay(n, 3))
         => LET unit == IF precision >= 3 THEN 1 ELSE Pow10(3 - precision)
            IN last.out.n = (n \div unit) * unit

C9_Witness ==
  /\ colKind = "Time64" /\ precision = 9 /\ ZonelessOrUTC
  /\ ReadIntOf(45045) /\ last.out.n = 45045

\* C10: parse gives the documented descriptor: Time the default timezone,
\* Time('UTC') the zone UTC, Time64(3) precision 3 and the default timezone,
\* Time64(6, 'UTC') precision 6 and the zone UTC; Time64(bad) and
\* Time64(3,4,5) fail.
C10_ParseDescriptors ==
  (last.op = "parse") =>
    /\ (colKind = "Time" /\ last.arg.s = <<"T", "i", "m", "e">>)
         => (last.err = NoErr /\ phase = "ready" /\ timezone = last.tz)
    /\ (colKind = "Time" /\ last.arg.s = <<"T", "i", "m", "e", "(", "'", "U", "T", "C", "'", ")">>)
         => (last.err = NoErr /\ phase = "ready" /\ timezone = "UTC")
    /\ (colKind = "Time64" /\ last.arg.s = <<"T", "i", "m", "e", "6", "4", "(", "3", ")">>)
         => (/\ last.err = NoErr /\ phase = "ready" /\ timezone = last.tz
             /\ precision = 3 /\ precisionSet)
    /\ (colKind = "Time64" /\ last.arg.s = <<"T", "i", "m", "e", "6", "4", "(", "6", ",", " ", "'", "U", "T", "C", "'", ")">>)
         => (/\ last.err = NoErr /\ phase = "ready" /\ timezone = "UTC"
             /\ precision = 6 /\ precisionSet)
    /\ (colKind = "Time64" /\ last.arg.s \in {<<"T", "i", "m", "e", "6", "4", "(", "b", "a", "d", ")">>,
                                              <<"T", "i", "m", "e", "6", "4", "(", "3", ",", "4", ",", "5", ")">>})
         => (last.err # NoErr /\ phase = "failed")

C10_Witness ==
  /\ last.op = "parse" /\ colKind = "Time64"
  /\ last.arg.s = <<"T", "i", "m", "e", "6", "4", "(", "6", ",", " ", "'", "U", "T", "C", "'", ")">>
  /\ last.tz = "Asia/Dubai" /\ phase = "ready"

\* a signed or unsigned decimal integer
IsIntegerLiteral(x) == ParseInt(x, 64).ok

\* 'zone' for a zone name the registry resolves
IsQuotedZone(x) ==
  /\ Len(x) >= 2 /\ x[1] = "'" /\ x[Len(x)] = "'"
  /\ timezone_Load(SubSeq(x, 2, Len(x) - 1)).ok

\* the accepted forms Time, Time('zone'), Time64(p) and Time64(p, 'zone')
IsTimeForm(t) ==
  \/ t = <<"T", "i", "m", "e">>
  \/ /\ HasPrefix(t, <<"T", "i", "m", "e", "(">>) /\ HasSuffix(t, <<")">>)
     /\ IsQuotedZone(SubSeq(t, 6, Len(t) - 1))

IsTime64Form(t) ==
  /\ HasPrefix(t, <<"T", "i", "m", "e", "6", "4", "(">>) /\ HasSuffix(t, <<")">>)
  /\ LET params == SplitComma(SubSeq(t, 8, Len(t) - 1))
     IN \/ Len(params) = 1 /\ IsIntegerLiteral(params[1])
        \/ /\ Len(params) = 2 /\ IsIntegerLiteral(params[1])
           /\ HasPrefix(params[2], <<" ">>) /\ IsQuotedZone(Drop(params[2], 1))

AcceptedForm(t) == IsTimeForm(t) \/ IsTime64Form(t)

\* C11: parse of a type string that is not one of the accepted forms Time,
\* Time('zone'), Time64(p), Time64(p, 'zone') returns an error and leaves no
\* configured column.
C11_MalformedRejected ==
  (last.op = "parse" /\ ~AcceptedForm(last.arg.s))
    => (last.err # NoErr /\ phase # "ready")

\* C12: after a failed parse the recorded type string, the timezone, the
\* precision and the precision-set flag are what they were before the call
\* (parse is called on a column as constructed).
C12_FailedParseKeepsNothing ==
  (last.op = "parse" /\ last.err # NoErr)
    => /\ chType = <<>>
       /\ timezone = NilLoc
       /\ precision = 0
       /\ precisionSet = FALSE

\* C13: a Time64 column that parse has configured has a precision in 0..9.
C13_PrecisionInRange ==
  (colKind = "Time64" /\ last.op = "parse" /\ last.err = NoErr)
    => (precisionSet /\ precision \in 0..9)

\* the destinations of the model that are no instant, integer, string,
\* nullable wrapper or scanner, nor a pointer to one
UnsupportedDests == {"*float64"}

\* C14: ScanRow into a destination of an unsupported shape returns the
\* conversion error of operation ScanRow that names the destination type,
\* writes nothing and leaves the rows as they were; no ScanRow returns nil
\* without having written the destination.
C14_UnknownDestination ==
  (last.op = "ScanRow") =>
    /\ (last.dest \in UnsupportedDests) =>
         /\ last.err = ColumnConverterError("ScanRow", last.dest, colKind, "")
         /\ last.out = Val("unset")
         /\ data = last.before
    /\ (last.err = NoErr) => (last.out # Val("unset"))

C14_Witness ==
  /\ last.op = "ScanRow" /\ last.dest = "*float64"
  /\ last.err.kind = "ColumnConverterError" /\ data # <<>>

\* C15: Append or AppendRow of a driver.Valuer returns, also when the value
\* it produces is a driver.Valuer again; when Value() fails, the call returns
\* the conversion error that names the host type, and appends nothing.
C15_ValuerTerminates ==
  (last.op \in {"Append", "AppendRow"} /\ last.arg.tag = "Valuer") =>
    /\ ~panicked
    /\ (~ValuerValue(last.arg).ok) =>
         /\ last.err = ColumnConverterError(last.op, colKind, last.arg.tag,
                                            "could not get driver.Valuer value")
         /\ data = last.before

\* C16: a successful batch Append of n elements returns n null indicators
\* and adds n rows; for a batch of pointers to integers or to instants,
\* indicator i is 1 exactly when element i is nil, and the row of a nil
\* element is the sentinel zero instant.
C16_BatchNulls ==
  (last.op = "Append" /\ last.err = NoErr /\ ~panicked) =>
    LET items == Elements(last.arg)
    IN /\ Len(last.nulls) = Len(items)
       /\ Len(data) = Len(last.before) + Len(items)
       /\ (last.arg.tag \in {"[]*int64", "[]*time.Time"}) =>
            \A i \in 1..Len(items) :
              /\ last.nulls[i] = (IF items[i].isnil THEN 1 ELSE 0)
              /\ items[i].isnil => Appended[i] = StoreTicks(<<ZeroTime>>)[1]

C16_Witness ==
  /\ last.op = "Append" /\ last.err = NoErr /\ ~panicked
  /\ last.arg.tag = "[]*int64" /\ Len(last.arg.items) = 2
  /\ last.nulls = <<0, 1>> /\ Len(data) = 2

====
